---- MODULE Spec2Model ----
(***************************************************************************)
(* MenuSnap (src/main.py): a Telegram bot that turns a menu photo into     *)
(* category / dish buttons and fetches reference images for a dish.        *)
(*                                                                         *)
(* State: the four module-level dictionaries (menu_data,                   *)
(* user_category_choice, user_dish_choice, button_lookup), the content of  *)
(* the downloads/ directory, and the locals of a running dish selection.   *)
(* Observation variables record the handler that ran last (turn) and the   *)
(* messages it sent (out).                                                 *)
(***************************************************************************)
EXTENDS Integers, Sequences, FiniteSets, TLC

VARIABLES menu_data, user_category_choice, user_dish_choice, button_lookup,
          files, proc, turn, out, budget, concurrent_updates

vars == <<menu_data, user_category_choice, user_dish_choice, button_lookup,
          files, proc, turn, out, budget, concurrent_updates>>

-----------------------------------------------------------------------------
(* Bounds of the model *)

\* updates handled in one behaviour of Spec; SpecLong handles one more
MaxEvents == 2
\* entries the external image index can yield for one query
MaxIndex == 5

\* Telegram user ids
Users == {"u1", "u2"}
\* values str(uuid.uuid4())[:8] can take
Tokens == {"0a1b", "2c3d", "4e5f"}
\* Telegram file ids of uploaded photos
FileIds == {"AgAC"}

-----------------------------------------------------------------------------
(* Python values *)

\* a key that is absent from a dict
None == "None"

\* dict literal: keys in insertion order, items maps each key to its value
Dict(keys, items) == [kind |-> "dict", keys |-> keys, items |-> items]
EmptyDict == Dict(<<>>, <<>>)
\* well-formed literals that are not mappings
ListLiteral == [kind |-> "list", keys |-> <<>>, items |-> <<>>]
StrLiteral == [kind |-> "str", keys |-> <<>>, items |-> <<>>]

Range(s) == {s[i] : i \in DOMAIN s}

\* dict.keys() / dict.get exist on a dict only; on a list or a str the
\* attribute lookup raises AttributeError
HasDictMethods(v) == v.kind = "dict"
dict_keys(d) == d.keys
dict_get(d, key, default) == IF key \in Range(d.keys) THEN d.items[key] ELSE default
\* variant: `if dishes is not None:`, true of an empty list too
Truthy_notNone(list) == TRUE

\* truth value of a list: `if dishes:`, `if media_group:`
Truthy(list) == list # <<>>

\* menus the structuring call can answer with: MenuA lists one dish under
\* both categories, MenuB has a category without dishes
MenuA == Dict(<<"Starters", "Mains">>,
              ("Starters" :> <<"Garlic Bread", "Grilled Salmon">>) @@ ("Mains" :> <<"Grilled Salmon">>))
MenuB == Dict(<<"Mains", "Starters">>,
              ("Mains" :> <<>>) @@ ("Starters" :> <<"Garlic Bread">>))

\* answers of the chat-completion call: text that does not parse, or the
\* text of a well-formed literal, given by the value it denotes
NoValue == [kind |-> "none", keys |-> <<>>, items |-> <<>>]
SyntaxErrorText == [wf |-> FALSE, value |-> NoValue]
Literal(v) == [wf |-> TRUE, value |-> v]
\* the call itself raises instead of answering
APIError == [wf |-> FALSE, value |-> [kind |-> "raise", keys |-> <<>>, items |-> <<>>]]
\* no call was made
NoReply == [wf |-> TRUE, value |-> NoValue]
LLMReplies == {SyntaxErrorText, Literal(ListLiteral), Literal(StrLiteral),
               Literal(EmptyDict), Literal(MenuA), Literal(MenuB)}

\* variant: json.loads, which rejects the quoting of a Python literal
literal_eval_json(text) == [raised |-> TRUE, value |-> text.value]

\* ast.literal_eval: raises on text that is no literal, else its value
literal_eval(text) == [raised |-> ~text.wf, value |-> text.value]

\* OCR output joined with newlines, as a sequence of characters
OCRTexts == {<<>>, <<" ", "\n">>, <<"S", "\n", "G">>}
Whitespace == {" ", "\n"}
\* variant: `if not extracted_text:`, without strip()
StripIsEmpty_nostrip(text) == text = <<>>

\* not extracted_text.strip()
StripIsEmpty(text) == \A i \in DOMAIN text : text[i] \in Whitespace

-----------------------------------------------------------------------------
(* Callback token registry *)

Unknown == "Unknown"

\* f"{prefix}:{uid}" as a sequence of lexemes
Format(prefix, uid) == <<prefix, ":", uid>>

\* data.startswith(prefix + ":")
StartsWith(data, prefix) == Len(data) >= 2 /\ data[1] = prefix /\ data[2] = ":"

\* data.split(":", 1)[1]: the text after the first ':'
SplitAfterColon(data) ==
    LET i == CHOOSE k \in DOMAIN data : data[k] = ":" /\ \A j \in 1..(k - 1) : data[j] # ":"
    IN  SubSeq(data, i + 1, Len(data))

\* variant: the label is stored under the whole callback data, a key that
\* resolve_callback is never asked for
create_callback_fullkey(lookup, uid, prefix, text) ==
    [lookup |-> lookup, data |-> Format(prefix, uid)]

\* variant: button_lookup = {uid: text}, a new table at every call
create_callback_rebind(lookup, uid, prefix, text) ==
    [lookup |-> [t \in DOMAIN lookup |-> IF t = uid THEN text ELSE None],
     data |-> Format(prefix, uid)]

\* create_callback: button_lookup[uid] = text; return f"{prefix}:{uid}"
create_callback(lookup, uid, prefix, text) ==
    [lookup |-> [lookup EXCEPT ![uid] = text], data |-> Format(prefix, uid)]

\* resolve_callback: button_lookup.get(data, "Unknown")
resolve_callback(lookup, key) ==
    IF Len(key) = 1 /\ key[1] \in DOMAIN lookup /\ lookup[key[1]] # None
    THEN lookup[key[1]]
    ELSE Unknown

\* the list comprehension [InlineKeyboardButton(x, callback_data=create_callback(prefix, x)) for x in labels]
\* with uids[i] the uuid drawn for the i-th label: the table after the k first calls
RECURSIVE LookupAfter(_, _, _, _, _)
LookupAfter(lookup, uids, prefix, labels, k) ==
    IF k = 0 THEN lookup
    ELSE create_callback(LookupAfter(lookup, uids, prefix, labels, k - 1),
                         uids[k], prefix, labels[k]).lookup

\* the buttons of that keyboard: label shown and callback data
Keyboard(lookup, uids, prefix, labels) ==
    [i \in 1..Len(labels) |->
        [text |-> labels[i],
         data |-> create_callback(LookupAfter(lookup, uids, prefix, labels, i - 1),
                                  uids[i], prefix, labels[i]).data]]

-----------------------------------------------------------------------------
(* Messages sent to the user *)

Msg(type, label, buttons, media) ==
    [type |-> type, label |-> label, buttons |-> buttons, media |-> media]
Text(type) == Msg(type, "", <<>>, <<>>)
ContinueExitKeyboard == <<[text |-> "Explore More", data |-> <<"continue">>],
                          [text |-> "Exit", data |-> <<"exit">>]>>

-----------------------------------------------------------------------------
(* Image acquisition *)

MAX_IMAGES == 4
max_results == 8
MinBytes == 1024

\* downloads/{file_id}.jpg and downloads/{user_id}_{idx}.jpg
PhotoName(fid) == <<fid, -1>>
DownloadName(u, idx) == <<u, idx>>

\* search_images: the first max_results entries of what the index yields;
\* the index yields URLs identified by their rank
Index(n) == [i \in 1..n |-> i]
search_images(index, limit) ==
    IF Len(index) >= limit THEN SubSeq(index, 1, limit) ELSE index

\* sizes of the index tried: no result, fewer than MAX_IMAGES, more
IndexSizes == {0, 2, MaxIndex}

\* variant: the loop runs over all of images
Candidates_untruncated(images) == images

\* images[:MAX_IMAGES]
Candidates(images) == SubSeq(images, 1, IF Len(images) < MAX_IMAGES THEN Len(images) ELSE MAX_IMAGES)

\* outcome of session.get(url): the connection fails (aiohttp raises), or a
\* response with a status and a body of some size
NetError == [conn |-> FALSE, status |-> 0, size |-> 0]
Response(status, size) == [conn |-> TRUE, status |-> status, size |-> size]
Fetches == {NetError, Response(200, 1023), Response(200, 1024), Response(404, 1024)}

\* variant: the body is written without the size test
download_image_nosize(fetch) ==
    IF ~fetch.conn THEN [ret |-> FALSE, wrote |-> FALSE, raised |-> TRUE]
    ELSE IF fetch.status = 200
         THEN [ret |-> TRUE, wrote |-> TRUE, raised |-> FALSE]
         ELSE [ret |-> FALSE, wrote |-> FALSE, raised |-> FALSE]

\* download_image: what it returns, whether it wrote the file, whether it raised
download_image(fetch) ==
    IF ~fetch.conn THEN [ret |-> FALSE, wrote |-> FALSE, raised |-> TRUE]
    ELSE IF fetch.status = 200
         THEN IF fetch.size < MinBytes
              THEN [ret |-> FALSE, wrote |-> FALSE, raised |-> FALSE]
              ELSE [ret |-> TRUE, wrote |-> TRUE, raised |-> FALSE]
         ELSE [ret |-> FALSE, wrote |-> FALSE, raised |-> FALSE]

-----------------------------------------------------------------------------
(* State *)

NoFetch == [conn |-> FALSE, status |-> -1, size |-> -1]
NoResult == [ret |-> FALSE, wrote |-> FALSE, raised |-> FALSE]
\* locals of a dish selection; valid and last record what download_image
\* returned per candidate and what its last call was given and did
IdleProc == [pc |-> "idle", images |-> <<>>, idx |-> 0, media_group |-> <<>>,
             valid |-> <<>>, fetch |-> NoFetch, result |-> NoResult]
\* listed and failed are what an exit found in downloads/ and could not remove
NoTurn == [user |-> "none", event |-> "none", data |-> <<>>, input |-> NoReply, raised |-> FALSE,
           listed |-> {}, failed |-> {}]
Turn(u, event, data, input, raised) ==
    [user |-> u, event |-> event, data |-> data, input |-> input, raised |-> raised,
     listed |-> {}, failed |-> {}]

\* the process right after start-up, with `events` updates still to come
InitWith(events, concurrent) ==
    /\ menu_data = EmptyDict
    /\ user_category_choice = [u \in Users |-> None]
    /\ user_dish_choice = [u \in Users |-> None]
    /\ button_lookup = [t \in Tokens |-> None]
    /\ files = {}
    /\ proc = [u \in Users |-> IdleProc]
    /\ turn = NoTurn
    /\ out = <<>>
    /\ budget = events
    /\ concurrent_updates = concurrent

\* ApplicationBuilder() is built without concurrent_updates
Init == InitWith(MaxEvents, FALSE)
InitLong == InitWith(MaxEvents + 1, FALSE)

\* python-telegram-bot awaits one update's handler before it takes the next
\* one when concurrent_updates is off; with it on, the handler of an update
\* starts while handlers of other users are suspended at an await, and the
\* updates of one user stay in order
CanStart(u) ==
    /\ budget > 0
    /\ IF concurrent_updates
       THEN proc[u].pc = "idle"
       ELSE \A v \in Users : proc[v].pc = "idle"

-----------------------------------------------------------------------------
(* handle_image *)

HandleImage(u) ==
    /\ CanStart(u)
    /\ budget' = budget - 1
    /\ \E fid \in FileIds, text \in OCRTexts :
        /\ files' = files \cup {PhotoName(fid)}
        /\ IF StripIsEmpty(text)
           THEN /\ out' = <<Text("Received"), Text("CantSee")>>
                /\ turn' = Turn(u, "image", text, NoReply, FALSE)
                /\ UNCHANGED <<menu_data, button_lookup>>
           ELSE \E reply \in LLMReplies \cup {APIError} :
                /\ turn' = Turn(u, "image", text, reply, FALSE)
                /\ IF reply = APIError
                   THEN /\ out' = <<Text("Received"), Text("ProcessingError")>>
                        /\ UNCHANGED <<menu_data, button_lookup>>
                   ELSE LET menu == literal_eval(reply) IN
                        IF menu.raised
                        THEN /\ out' = <<Text("Received"), Text("ParseFailed")>>
                             /\ UNCHANGED <<menu_data, button_lookup>>
                        ELSE /\ menu_data' = menu.value
                             /\ IF ~HasDictMethods(menu.value)
                                THEN /\ out' = <<Text("Received"), Text("ProcessingError")>>
                                     /\ UNCHANGED button_lookup
                                ELSE LET categories == dict_keys(menu.value) IN
                                     \E uids \in [1..Len(categories) -> Tokens] :
                                        /\ button_lookup' = LookupAfter(button_lookup, uids, "category",
                                                                        categories, Len(categories))
                                        /\ out' = <<Text("Received"),
                                                    Msg("ChooseCategory", "",
                                                        Keyboard(button_lookup, uids, "category", categories),
                                                        <<>>)>>
    /\ UNCHANGED <<user_category_choice, user_dish_choice, proc>>
    /\ UNCHANGED concurrent_updates

-----------------------------------------------------------------------------
(* handle_selection *)

\* callback data of a pressed button: any button ever sent, also by an
\* earlier run of the process
Pressed == {Format(p, t) : p \in {"category", "dish"}, t \in Tokens}
              \cup {<<"continue">>, <<"exit">>}

\* variant: the label is kept only when the token resolved
set_user_choice_resolved(choice, user_id, label) ==
    IF label = Unknown THEN choice ELSE [choice EXCEPT ![user_id] = label]
\* variant: one entry per chat instead of one per user
set_user_choice_shared(choice, user_id, label) == [v \in DOMAIN choice |-> label]

\* user_category_choice[user_id] = category, user_dish_choice[user_id] = dish
set_user_choice(choice, user_id, label) == [choice EXCEPT ![user_id] = label]

\* data.startswith("category:")
SelectCategory(u) ==
    /\ CanStart(u)
    /\ budget' = budget - 1
    /\ \E data \in Pressed :
        /\ StartsWith(data, "category")
        /\ LET category == resolve_callback(button_lookup, SplitAfterColon(data)) IN
            /\ user_category_choice' = set_user_choice(user_category_choice, u, category)
            /\ IF ~HasDictMethods(menu_data)
               THEN /\ turn' = Turn(u, "category", data, NoReply, TRUE)
                    /\ out' = <<>>
                    /\ UNCHANGED button_lookup
               ELSE LET dishes == dict_get(menu_data, category, <<>>) IN
                    /\ turn' = Turn(u, "category", data, NoReply, FALSE)
                    /\ IF Truthy(dishes)
                       THEN \E uids \in [1..Len(dishes) -> Tokens] :
                               /\ button_lookup' = LookupAfter(button_lookup, uids, "dish",
                                                               dishes, Len(dishes))
                               /\ out' = <<Msg("ChooseDish", category,
                                               Keyboard(button_lookup, uids, "dish", dishes), <<>>)>>
                       ELSE /\ out' = <<Text("NoDishes")>>
                            /\ UNCHANGED button_lookup
    /\ UNCHANGED <<menu_data, user_dish_choice, files, proc>>
    /\ UNCHANGED concurrent_updates

\* data.startswith("dish:"), up to the return of search_images
SelectDish(u) ==
    /\ CanStart(u)
    /\ budget' = budget - 1
    /\ \E data \in Pressed, n \in IndexSizes :
        /\ ~StartsWith(data, "category")
        /\ StartsWith(data, "dish")
        /\ LET dish == resolve_callback(button_lookup, SplitAfterColon(data)) IN
            /\ user_dish_choice' = set_user_choice(user_dish_choice, u, dish)
            /\ out' = <<Msg("Searching", dish, <<>>, <<>>)>>
            /\ turn' = Turn(u, "dish", data, NoReply, FALSE)
            /\ proc' = [proc EXCEPT ![u] = [IdleProc EXCEPT
                                            !.pc = "download",
                                            !.images = search_images(Index(n), max_results)]]
    /\ UNCHANGED <<menu_data, user_category_choice, button_lookup, files>>
    /\ UNCHANGED concurrent_updates

\* one iteration of: for idx, img_url in enumerate(images[:MAX_IMAGES])
Download(u) ==
    /\ proc[u].pc = "download"
    /\ proc[u].idx < Len(Candidates(proc[u].images))
    /\ \E fetch \in Fetches :
        LET idx == proc[u].idx
            img_url == Candidates(proc[u].images)[idx + 1]
            filename == DownloadName(u, idx)
            r == download_image(fetch)
        IN  IF r.raised
            THEN /\ proc' = [proc EXCEPT ![u].pc = "raised", ![u].fetch = fetch, ![u].result = r]
                 /\ UNCHANGED <<files, turn>>
            ELSE /\ files' = IF r.wrote THEN files \cup {filename} ELSE files
                 /\ proc' = [proc EXCEPT ![u].idx = idx + 1,
                                         ![u].valid = Append(@, r.ret),
                                         ![u].fetch = fetch,
                                         ![u].result = r,
                                         ![u].media_group =
                                             IF r.ret THEN Append(@, [url |-> img_url, file |-> filename])
                                             ELSE @]
                 /\ UNCHANGED turn
    /\ UNCHANGED <<menu_data, user_category_choice, user_dish_choice, button_lookup, out, budget>>
    /\ UNCHANGED concurrent_updates

\* the exception of download_image leaves handle_selection, which has no
\* try block: the handler ends there
Unwind(u) ==
    /\ proc[u].pc = "raised"
    /\ proc' = [proc EXCEPT ![u] = IdleProc]
    /\ turn' = [turn EXCEPT !.raised = TRUE]
    /\ UNCHANGED <<menu_data, user_category_choice, user_dish_choice, button_lookup,
                   files, out, budget>>
    /\ UNCHANGED concurrent_updates

\* after the loop: the gallery or the apology, then the continue/exit buttons
DishReply(u) ==
    /\ proc[u].pc = "download"
    /\ proc[u].idx = Len(Candidates(proc[u].images))
    /\ out' = out \o <<IF Truthy(proc[u].media_group)
                       THEN Msg("Gallery", "", <<>>, proc[u].media_group)
                       ELSE Text("NoImages"),
                       Msg("ContinueOrExit", "", ContinueExitKeyboard, <<>>)>>
    /\ proc' = [proc EXCEPT ![u] = IdleProc]
    /\ UNCHANGED <<menu_data, user_category_choice, user_dish_choice, button_lookup,
                   files, turn, budget>>
    /\ UNCHANGED concurrent_updates

\* data == "continue"
Continue(u) ==
    /\ CanStart(u)
    /\ budget' = budget - 1
    /\ \E data \in Pressed :
        /\ ~StartsWith(data, "category") /\ ~StartsWith(data, "dish")
        /\ data = <<"continue">>
        /\ IF ~HasDictMethods(menu_data)
           THEN /\ turn' = Turn(u, "continue", data, NoReply, TRUE)
                /\ out' = <<>>
                /\ UNCHANGED button_lookup
           ELSE LET categories == dict_keys(menu_data) IN
                \E uids \in [1..Len(categories) -> Tokens] :
                   /\ turn' = Turn(u, "continue", data, NoReply, FALSE)
                   /\ button_lookup' = LookupAfter(button_lookup, uids, "category",
                                                   categories, Len(categories))
                   /\ out' = <<Msg("ChooseAnother", "",
                                   Keyboard(button_lookup, uids, "category", categories), <<>>)>>
    /\ UNCHANGED <<menu_data, user_category_choice, user_dish_choice, files, proc>>
    /\ UNCHANGED concurrent_updates

\* for f in os.listdir("downloads"): try: os.remove(...) except: pass
\* failing are the entries on which os.remove raises
purge_unguarded(listed, failing) ==
    IF listed \cap failing # {}
    THEN [left |-> listed, raised |-> TRUE]
    ELSE [left |-> {}, raised |-> FALSE]
purge(listed, failing) == [left |-> listed \cap failing, raised |-> FALSE]

\* variant: the exit also drops the user's selections
Exit_teardown(u) ==
    /\ CanStart(u)
    /\ budget' = budget - 1
    /\ \E failing \in SUBSET files :
        LET r == purge(files, failing) IN
            /\ files' = r.left
            /\ turn' = [Turn(u, "exit", <<"exit">>, NoReply, r.raised) EXCEPT
                            !.listed = files, !.failed = failing]
            /\ out' = IF r.raised THEN <<>> ELSE <<Text("Farewell")>>
    /\ user_category_choice' = [user_category_choice EXCEPT ![u] = None]
    /\ user_dish_choice' = [user_dish_choice EXCEPT ![u] = None]
    /\ UNCHANGED <<menu_data, button_lookup, proc>>
    /\ UNCHANGED concurrent_updates

\* data == "exit"
Exit(u) ==
    /\ CanStart(u)
    /\ budget' = budget - 1
    /\ \E data \in Pressed, failing \in SUBSET files :
        /\ ~StartsWith(data, "category") /\ ~StartsWith(data, "dish")
        /\ data # <<"continue">>
        /\ data = <<"exit">>
        /\ LET r == purge(files, failing) IN
            /\ files' = r.left
            /\ turn' = [Turn(u, "exit", data, NoReply, r.raised) EXCEPT
                            !.listed = files, !.failed = failing]
            /\ out' = IF r.raised THEN <<>> ELSE <<Text("Farewell")>>
    /\ UNCHANGED <<menu_data, user_category_choice, user_dish_choice, button_lookup, proc>>
    /\ UNCHANGED concurrent_updates

(* handle_other *)
HandleOther(u) ==
    /\ CanStart(u)
    /\ budget' = budget - 1
    /\ turn' = Turn(u, "other", <<>>, NoReply, FALSE)
    /\ out' = <<Text("Greeting")>>
    /\ UNCHANGED <<menu_data, user_category_choice, user_dish_choice, button_lookup, files, proc>>
    /\ UNCHANGED concurrent_updates

Next ==
    \E u \in Users :
        \/ HandleImage(u)
        \/ SelectCategory(u)
        \/ SelectDish(u)
        \/ Download(u)
        \/ Unwind(u)
        \/ DishReply(u)
        \/ Continue(u)
        \/ Exit(u)
        \/ HandleOther(u)

Spec == Init /\ [][Next]_vars

\* the same machine followed for one more update
SpecLong == InitLong /\ [][Next]_vars

-----------------------------------------------------------------------------
(* Handlers of different users interleaved at their awaits *)

InitConc == InitWith(MaxEvents, TRUE)

\* download_image up to its `return True`: the body has been read and
\* written to filepath. The return then leaves the two `async with` blocks,
\* whose exits are awaited, so other handlers can run before it reaches
\* handle_selection
FetchInto(u) ==
    /\ concurrent_updates
    /\ proc[u].pc = "download"
    /\ proc[u].idx < Len(Candidates(proc[u].images))
    /\ \E fetch \in Fetches :
        LET r == download_image(fetch) IN
            /\ r.wrote
            /\ files' = files \cup {DownloadName(u, proc[u].idx)}
            /\ proc' = [proc EXCEPT ![u].pc = "returning", ![u].fetch = fetch, ![u].result = r]
    /\ UNCHANGED <<menu_data, user_category_choice, user_dish_choice, button_lookup,
                   turn, out, budget, concurrent_updates>>

\* success is True in handle_selection: open(filename, "rb") raises
\* FileNotFoundError when the file is gone, else the photo joins media_group
OpenFetched(u) ==
    /\ proc[u].pc = "returning"
    /\ LET idx == proc[u].idx
           img_url == Candidates(proc[u].images)[idx + 1]
           filename == DownloadName(u, idx)
       IN  IF filename \in files
           THEN proc' = [proc EXCEPT ![u].pc = "download",
                                     ![u].idx = idx + 1,
                                     ![u].valid = Append(@, TRUE),
                                     ![u].media_group = Append(@, [url |-> img_url, file |-> filename])]
           ELSE proc' = [proc EXCEPT ![u].pc = "raised", ![u].valid = Append(@, TRUE)]
    /\ UNCHANGED <<menu_data, user_category_choice, user_dish_choice, button_lookup,
                   files, turn, out, budget, concurrent_updates>>

NextConc ==
    \/ Next
    \/ \E u \in Users : FetchInto(u) \/ OpenFetched(u)

SpecConc == InitConc /\ [][NextConc]_vars

-----------------------------------------------------------------------------
(* Properties *)

KeyboardTypes == {"ChooseCategory", "ChooseDish", "ChooseAnother"}
Labels(buttons) == [i \in DOMAIN buttons |-> buttons[i].text]
Resolves(button) == resolve_callback(button_lookup, SplitAfterColon(button.data)) = button.text
\* this step starts a handler for event e
Starts(e) == budget' = budget - 1 /\ turn'.event = e
\* download_image's acceptance condition as the specification states it
Accepted(fetch) == fetch.conn /\ fetch.status = 200 /\ fetch.size >= 1024

\* C1: token round trip. In the keyboard a handler has just rendered, with
\* either prefix, the token of a button (the text after the first ':' of its
\* callback data) resolves to the label the button was registered with; the
\* table read is the one left by the keyboard's last create_callback call, so
\* the statement is about each call whose token no later call of the same
\* keyboard drew again, the last call always being one.
C1_RoundTrip ==
    \A k \in DOMAIN out :
        out[k].type \in KeyboardTypes =>
            \A i \in DOMAIN out[k].buttons :
                (\A j \in (i + 1)..Len(out[k].buttons) :
                    SplitAfterColon(out[k].buttons[j].data) # SplitAfterColon(out[k].buttons[i].data))
                => Resolves(out[k].buttons[i])

C1_Witness ==
    \E k \in DOMAIN out :
        /\ out[k].type = "ChooseDish"
        /\ Len(out[k].buttons) = 2
        /\ out[k].buttons[1].data # out[k].buttons[2].data
        /\ StartsWith(out[k].buttons[1].data, "dish")
        /\ Resolves(out[k].buttons[1]) /\ Resolves(out[k].buttons[2])
        /\ out[k].buttons[1].text # out[k].buttons[2].text

\* C2: an upload whose structuring output does not parse into a mapping
\* (malformed text, or a literal that is a list or a string) reports an error
\* and leaves menu_data as it was.
ParseFails(reply) == ~reply.wf \/ reply.value.kind # "dict"
C2_Claim ==
    [][(Starts("image") /\ turn'.input \in LLMReplies /\ ParseFails(turn'.input))
        => /\ menu_data' = menu_data
           /\ \E k \in DOMAIN out' : out'[k].type \in {"ParseFailed", "ProcessingError"}]_vars

\* C3: an upload that parses, coming right after the same user's exit, finds
\* no selected category or dish of that user and no file in downloads/ left
\* from before it.
C3_Claim ==
    [][(turn.event = "exit" /\ Starts("image") /\ turn'.user = turn.user
            /\ turn'.input \in LLMReplies /\ ~ParseFails(turn'.input))
        => /\ user_category_choice'[turn.user] = None
           /\ user_dish_choice'[turn.user] = None
           /\ files = {}]_vars

\* C4: download_image returns False without raising on every failed attempt
\* (no connection, status other than 200, body under 1024 bytes), and the
\* dish selection never ends by an exception.
C4_Claim ==
    /\ \A u \in Users :
        (proc[u].fetch # NoFetch /\ ~Accepted(proc[u].fetch))
            => (~proc[u].result.ret /\ ~proc[u].result.raised)
    /\ turn.event = "dish" => ~turn.raised

\* C5: a dish selection that has ended has sent the continue/exit buttons
\* last, and right before them either a non-empty gallery or the
\* empty-result message.
C5_Claim ==
    (turn.event = "dish" /\ proc[turn.user].pc = "idle")
        => /\ Len(out) = 3
           /\ out[3].type = "ContinueOrExit"
           /\ \/ out[2].type = "Gallery" /\ out[2].media # <<>>
              \/ out[2].type = "NoImages"

\* C6: download_image returns True exactly when the status is 200 and the
\* body has at least 1024 bytes, and the step writes the destination file in
\* that case and changes nothing in downloads/ otherwise.
DownloadStep(u) == proc[u].pc = "download" /\ proc'[u] # proc[u] /\ proc'[u].fetch # NoFetch
C6_DownloadValidates ==
    [][\A u \in Users :
        DownloadStep(u) =>
            /\ proc'[u].result.ret <=> Accepted(proc'[u].fetch)
            /\ files' = IF Accepted(proc'[u].fetch)
                        THEN files \cup {DownloadName(u, proc[u].idx)}
                        ELSE files]_vars

C6_Witness ==
    \E u \in Users :
        /\ proc[u].pc = "download"
        /\ proc[u].valid = <<TRUE, FALSE>>
        /\ proc[u].fetch = Response(200, 1023)
        /\ DownloadName(u, 0) \in files
        /\ DownloadName(u, 1) \notin files

\* C7: the gallery a dish selection sends has at most 4 entries and is the
\* sequence, in search order, of those among the first 4 search results whose
\* download returned True (no gallery is sent when there is none).
RECURSIVE ValidatedUpTo(_, _, _, _)
ValidatedUpTo(u, images, valid, k) ==
    IF k = 0 THEN <<>>
    ELSE IF k <= Len(valid) /\ valid[k]
         THEN Append(ValidatedUpTo(u, images, valid, k - 1),
                     [url |-> images[k], file |-> DownloadName(u, k - 1)])
         ELSE ValidatedUpTo(u, images, valid, k - 1)
FirstFour(images) == IF Len(images) < 4 THEN Len(images) ELSE 4
ReplyStep(u) == proc[u].pc = "download" /\ proc'[u].pc = "idle"
C7_Gallery ==
    [][\A u \in Users :
        ReplyStep(u) =>
            LET expected == ValidatedUpTo(u, proc[u].images, proc[u].valid, FirstFour(proc[u].images))
                sent == SelectSeq(out', LAMBDA m : m.type = "Gallery")
            IN  /\ Len(proc[u].valid) = FirstFour(proc[u].images)
                /\ Len(expected) <= 4
                /\ IF expected = <<>> THEN sent = <<>>
                   ELSE Len(sent) = 1 /\ sent[1].media = expected]_vars

C7_Witness ==
    /\ turn.event = "dish" /\ ~turn.raised
    /\ proc[turn.user].pc = "idle"
    /\ {DownloadName(turn.user, i) : i \in 0..3} \cap files
            = {DownloadName(turn.user, 1), DownloadName(turn.user, 3)}
    /\ \E k \in DOMAIN out :
        /\ out[k].type = "Gallery"
        /\ Len(out[k].media) = 2
        /\ out[k].media[1].url = 2 /\ out[k].media[2].url = 4

Unregistered(data) == resolve_callback(button_lookup, SplitAfterColon(data)) = Unknown
C9_Claim ==
    (turn.event \in {"category", "dish"} /\ Unregistered(turn.data) /\ proc[turn.user].pc = "idle")
        => /\ ~turn.raised
           /\ out # <<>>
           /\ turn.event = "category" => user_category_choice[turn.user] = Unknown
           /\ turn.event = "dish" => user_dish_choice[turn.user] = Unknown

\* C10: buttons mirror the current menu. After an upload that parses and
\* after a "continue" there is one category button per key of the menu, in
\* key order; after the selection of a category with dishes, one dish button
\* per dish, in list order; each button's token resolves to its label.
C10_Claim ==
    /\ (turn.event = "image" /\ turn.input \in LLMReplies /\ ~ParseFails(turn.input))
        => \E k \in DOMAIN out :
              out[k].type = "ChooseCategory" /\ Labels(out[k].buttons) = dict_keys(turn.input.value)
    /\ turn.event = "continue"
        => \E k \in DOMAIN out :
              /\ out[k].type = "ChooseAnother"
              /\ HasDictMethods(menu_data) => Labels(out[k].buttons) = dict_keys(menu_data)
    /\ (turn.event = "category" /\ HasDictMethods(menu_data)
            /\ dict_get(menu_data, user_category_choice[turn.user], <<>>) # <<>>)
        => \E k \in DOMAIN out :
              /\ out[k].type = "ChooseDish"
              /\ Labels(out[k].buttons) = dict_get(menu_data, user_category_choice[turn.user], <<>>)
    /\ \A k \in DOMAIN out :
          out[k].type \in KeyboardTypes => \A i \in DOMAIN out[k].buttons : Resolves(out[k].buttons[i])

UniqueDishes(menu) ==
    \A i, j \in DOMAIN menu.keys :
        i # j => Range(menu.items[menu.keys[i]]) \cap Range(menu.items[menu.keys[j]]) = {}

\* C12 as stated: whenever menu_data is a mapping, every dish name belongs
\* to exactly one of its categories.
C12_Claim == HasDictMethods(menu_data) => UniqueDishes(menu_data)

\* C12: menu_data is, unchanged, the value of the last structuring output
\* that evaluated as a literal: an upload with such an output stores it as it
\* is and no other step changes menu_data. So a step leads from a menu in
\* which every dish belongs to exactly one category to one in which some dish
\* belongs to two only if it is an upload whose output lists that dish under
\* two categories.
C12_StoredAsParsed ==
    [][/\ IF Starts("image") /\ turn'.input \in LLMReplies /\ turn'.input.wf
          THEN menu_data' = turn'.input.value
          ELSE menu_data' = menu_data
       /\ (HasDictMethods(menu_data') /\ ~UniqueDishes(menu_data')
                /\ (HasDictMethods(menu_data) => UniqueDishes(menu_data)))
            => /\ Starts("image")
               /\ turn'.input.value = menu_data'
               /\ ~UniqueDishes(turn'.input.value)]_vars

C12_Witness ==
    /\ turn.event = "image"
    /\ turn.input = Literal(MenuB)
    /\ menu_data = MenuB
    /\ UniqueDishes(menu_data)
    /\ \E k \in DOMAIN out : out[k].type = "ChooseCategory"

\* C13 as stated: a user with a user_dish_choice entry has a
\* user_category_choice entry.
C13_Claim ==
    \A u \in Users : user_dish_choice[u] # None => user_category_choice[u] # None

\* C13: each of a user's two entries comes into existence on that user's own
\* first press of its kind, the category entry on a category press and the
\* dish entry on a dish press, whether or not the other entry exists; every
\* such press leaves the entry present, no other step creates an entry and no
\* step removes one.
C13_Lazy ==
    [][\A u \in Users :
        /\ (user_category_choice[u] = None /\ user_category_choice'[u] # None)
              => Starts("category") /\ turn'.user = u
        /\ (user_dish_choice[u] = None /\ user_dish_choice'[u] # None)
              => Starts("dish") /\ turn'.user = u
        /\ (Starts("category") /\ turn'.user = u) => user_category_choice'[u] # None
        /\ (Starts("dish") /\ turn'.user = u) => user_dish_choice'[u] # None
        /\ user_category_choice[u] # None => user_category_choice'[u] # None
        /\ user_dish_choice[u] # None => user_dish_choice'[u] # None]_vars

C13_Witness ==
    /\ turn.event = "dish"
    /\ user_dish_choice[turn.user] # None
    /\ user_category_choice[turn.user] = None
    /\ \E v \in Users : v # turn.user /\ user_category_choice[v] # None

\* tokens with an entry in the table
Registered(lookup) == {t \in DOMAIN lookup : lookup[t] # None}
\* the create_callback calls of this step, in call order, as the buttons they
\* made: the buttons of the keyboard the handler started by this step renders
CallsOfStep ==
    IF budget' = budget - 1
    THEN LET boards == SelectSeq(out', LAMBDA m : m.type \in KeyboardTypes)
         IN  IF boards = <<>> THEN <<>> ELSE boards[1].buttons
    ELSE <<>>
TokenOf(button) == SplitAfterColon(button.data)[1]
LastLabel(buttons, t) ==
    buttons[CHOOSE i \in DOMAIN buttons :
                /\ TokenOf(buttons[i]) = t
                /\ \A j \in (i + 1)..Len(buttons) : TokenOf(buttons[j]) # t].text

\* C14 as stated: a step grows the table by one entry per create_callback
\* call it makes, and every entry of the table keeps its label.
C14_Claim ==
    [][/\ Cardinality(Registered(button_lookup'))
            = Cardinality(Registered(button_lookup)) + Len(CallsOfStep)
       /\ \A t \in Registered(button_lookup) : button_lookup'[t] = button_lookup[t]]_vars

\* C14: no step removes an entry of the table. A create_callback call adds
\* one entry when the token it draws is not in the table and replaces the
\* label of that token's entry when it is: after a step the table has the
\* tokens it had and those the step's calls drew, each drawn token with the
\* label of the last call that drew it and every other token with the label
\* it had.
C14_Registry ==
    [][LET drawn == {TokenOf(CallsOfStep[i]) : i \in DOMAIN CallsOfStep} IN
        /\ Registered(button_lookup') = Registered(button_lookup) \cup drawn
        /\ \A t \in drawn : button_lookup'[t] = LastLabel(CallsOfStep, t)
        /\ \A t \in Tokens \ drawn : button_lookup'[t] = button_lookup[t]
        /\ Cardinality(Registered(button_lookup'))
              = Cardinality(Registered(button_lookup))
                    + Cardinality(drawn \ Registered(button_lookup))]_vars

C14_Witness ==
    \E k \in DOMAIN out :
        /\ out[k].type = "ChooseDish"
        /\ Len(out[k].buttons) = 2
        /\ TokenOf(out[k].buttons[1]) = TokenOf(out[k].buttons[2])
        /\ out[k].buttons[1].text # out[k].buttons[2].text
        /\ button_lookup[TokenOf(out[k].buttons[2])] = out[k].buttons[2].text
        /\ \E t \in Tokens : button_lookup[t] \in {"Starters", "Mains"}

\* C15: a step changes the user_category_choice entry of a user only when it
\* is that user's category press and the user_dish_choice entry of a user
\* only when it is that user's dish press; a press changes no entry of
\* another user, and uploads, "continue", "exit" and other messages change
\* no entry at all.
C15_PerUser ==
    [][/\ \A v \in Users :
            /\ user_category_choice'[v] # user_category_choice[v]
                  => Starts("category") /\ turn'.user = v
            /\ user_dish_choice'[v] # user_dish_choice[v]
                  => Starts("dish") /\ turn'.user = v
       /\ (\E e \in {"image", "continue", "exit", "other"} : Starts(e))
            => UNCHANGED <<user_category_choice, user_dish_choice>>]_vars

C15_Witness ==
    /\ turn.event = "category" /\ turn.user = "u2"
    /\ user_category_choice["u2"] # None
    /\ user_dish_choice["u2"] = None
    /\ user_category_choice["u1"] = None
    /\ user_dish_choice["u1"] # None

\* text with no character other than blanks and line ends, the empty text
\* included
BlankText(text) == \A i \in DOMAIN text : text[i] = " " \/ text[i] = "\n"

\* C16: an upload whose extracted text is empty or whitespace only answers
\* with the resend message after the acknowledgement and ends there: the
\* structuring call is not made, menu_data, button_lookup and both selection
\* dicts are unchanged and no button is rendered.
C16_BlankText ==
    [][(Starts("image") /\ BlankText(turn'.data))
        => /\ out' = <<Text("Received"), Text("CantSee")>>
           /\ turn'.input = NoReply
           /\ ~turn'.raised
           /\ \A k \in DOMAIN out' : out'[k].buttons = <<>>
           /\ UNCHANGED <<menu_data, button_lookup, user_category_choice,
                          user_dish_choice, proc>>]_vars

C16_Witness ==
    /\ turn.event = "image"
    /\ turn.data = <<" ", "\n">>
    /\ out = <<Text("Received"), Text("CantSee")>>
    /\ menu_data = MenuB
    /\ Registered(button_lookup) # {}

\* C17: an upload whose output parses into a mapping makes it menu_data, and
\* a press of a category button that is in the registry, by any user, lists
\* the dishes menu_data has under the button's label at the time of the
\* press, which is the "no dishes" message when the label is not one of its
\* keys.
C17_Claim ==
    [][/\ (Starts("image") /\ turn'.input \in LLMReplies /\ ~ParseFails(turn'.input))
            => menu_data' = turn'.input.value
       /\ (Starts("category") /\ ~Unregistered(turn'.data))
            => LET category == resolve_callback(button_lookup, SplitAfterColon(turn'.data)) IN
               IF /\ HasDictMethods(menu_data)
                  /\ category \in Range(dict_keys(menu_data))
                  /\ menu_data.items[category] # <<>>
               THEN \E k \in DOMAIN out' :
                        /\ out'[k].type = "ChooseDish"
                        /\ Labels(out'[k].buttons) = menu_data.items[category]
               ELSE out' = <<Text("NoDishes")>>]_vars

\* C18: an exit leaves menu_data, button_lookup and both selection dicts as
\* they were, so every token resolves after it to what it resolved to before
\* it, and a category or dish press that comes right after an exit stores
\* the label the table had for its token before the exit.
C18_ExitFrame ==
    [][/\ Starts("exit")
            => /\ UNCHANGED <<menu_data, button_lookup, user_category_choice, user_dish_choice>>
               /\ \A t \in Tokens :
                    resolve_callback(button_lookup', <<t>>) = resolve_callback(button_lookup, <<t>>)
       /\ (turn.event = "exit" /\ Starts("category"))
            => user_category_choice'[turn'.user]
                    = resolve_callback(button_lookup, SplitAfterColon(turn'.data))
       /\ (turn.event = "exit" /\ Starts("dish"))
            => user_dish_choice'[turn'.user]
                    = resolve_callback(button_lookup, SplitAfterColon(turn'.data))]_vars

C18_Witness ==
    /\ turn.event = "exit"
    /\ turn.listed # {} /\ files = {}
    /\ menu_data = MenuA
    /\ \E t \in Tokens : button_lookup[t] = "Starters"
    /\ \E t \in Tokens : button_lookup[t] = "Mains"

====
